---- MODULE Spec2Model ----
(***************************************************************************)
(* Model of mr.developer's git backend, src/src/mr/developer/git.py:       *)
(* the GitWorkingCopy driver, its descriptor (self.source), the transcript *)
(* (self._git_stdout), the memoized tool version, and the repositories the *)
(* external git executable acts on.  Every method is an operator from a    *)
(* machine record to a machine record; an exception is the field exc.      *)
(***************************************************************************)
EXTENDS Integers, Sequences, FiniteSets, TLC

VARIABLES
    source,       \* the Source Descriptor: a function from the keys present to values
    attrs,        \* the instance attributes __init__ has set so far
    driver,       \* "none" (not constructed), "ready", "failed" (ctor raised), "dead" (sys.exit)
    git_stdout,   \* self._git_stdout: one stdout capture per invocation
    memo,         \* memoized git_version() result, <<>> while not computed
    world,        \* the checkout at source['path'] and its remote
    cwdHead,      \* branch checked out in the process's working directory
    installed,    \* what the installed git prints for --version (a line of tokens)
    calls,        \* the invocations (argv, cwd, exit status) issued by the last operation
    result,       \* what the last operation did: its name, arguments, exception, value
    left          \* operations this run may still perform on the driver

vars == <<source, attrs, driver, git_stdout, memo, world, cwdHead, installed, calls, result, left>>

-----------------------------------------------------------------------------
(* Bounds of the model *)

MaxOps == 2            \* operations run on one driver
MaxSubmodules == 2     \* submodules one 'submodule init' can newly register
MaxFailures == 1       \* invocations of one operation that exit non-zero for outside reasons

-----------------------------------------------------------------------------
(* Values *)

None == "<None>"
Name == "pkg"
Path == "/tmp/pkg"
Url == "https://example/repo.git"
OtherUrl == "https://example/other.git"
PushUrl == "git@example:repo.git"
NoCwd == "<process cwd>"
Rev == "v1.0"
Feature == "feature-x"
Branches == {"master", "dev", Feature}
BranchOrder == <<"master", "dev", Feature>>
Detached == "<detached>"
upstream_name == "origin"
SubmoduleNames == <<"sub1", "sub2", "sub3">>

Has(src, k) == k \in DOMAIN src
Get(src, k, default) == IF k \in DOMAIN src THEN src[k] ELSE default
Put(src, k, v) == [x \in DOMAIN src \cup {k} |-> IF x = k THEN v ELSE src[x]]
Del(src, k) == [x \in DOMAIN src \ {k} |-> src[x]]
In(x, seq) == \E i \in 1..Len(seq) : seq[i] = x

-----------------------------------------------------------------------------
(* Text the external tool prints.  A stdout is a sequence of lines, a line  *)
(* a sequence of tokens.                                                    *)

Digits == {"0", "1", "2", "3", "4", "5", "6", "30"}
IntOf(d) == CASE d = "0" -> 0 [] d = "1" -> 1 [] d = "2" -> 2 [] d = "3" -> 3
              [] d = "4" -> 4 [] d = "5" -> 5 [] d = "6" -> 6 [] d = "30" -> 30

RECURSIVE TupleLess(_, _)
\* Python's tuple order: lexicographic, a proper prefix is smaller
TupleLess(a, b) ==
    IF b = <<>> THEN FALSE
    ELSE IF a = <<>> THEN TRUE
    ELSE IF a[1] # b[1] THEN a[1] < b[1]
    ELSE TupleLess(Tail(a), Tail(b))

\* the version numbers in the line the installed git prints
RECURSIVE DottedVersion(_)
DottedVersion(toks) ==
    IF toks = <<>> THEN <<>>
    ELSE IF toks[1] \in Digits
         THEN <<IntOf(toks[1])>> \o (IF Len(toks) >= 2 /\ toks[2] = "."
                                     THEN DottedVersion(SubSeq(toks, 3, Len(toks)))
                                     ELSE <<>>)
         ELSE <<>>
\* the namespace the installed git lists remote-tracking branches under
ListedPrefix ==
    IF Len(installed) >= 3 /\ TupleLess(DottedVersion(SubSeq(installed, 3, Len(installed))), <<1, 6, 3>>)
    THEN upstream_name ELSE "remotes/" \o upstream_name

Quote(n) == "'" \o n \o "'"
Paren(n) == "(" \o n \o ")"

BranchListing(w) ==
    LET loc == SelectSeq(BranchOrder, LAMBDA b : b \in w.local)
        rem == SelectSeq(BranchOrder, LAMBDA b : b \in w.remote)
    IN  (IF w.head = Detached THEN << <<"*", "(no branch)">> >> ELSE <<>>)
        \o [i \in 1..Len(loc) |-> <<IF loc[i] = w.head THEN "*" ELSE " ", loc[i]>>]
        \o [i \in 1..Len(rem) |-> <<" ", ListedPrefix \o "/" \o rem[i]>>]

StatusReport(w) ==
    LET ref == IF w.head = Detached THEN "HEAD (no branch)" ELSE w.head
    IN  CASE w.tree = "clean" -> << <<"##", ref>> >>
          [] w.tree = "ahead" -> << <<"##", ref \o "..." \o upstream_name \o "/" \o ref, "[", "ahead", "1", "]">> >>
          [] w.tree = "dirty" -> << <<"##", ref>>, <<"M", "setup.py">> >>
          [] w.tree = "unborn" -> <<>>

SubmoduleInitReport(n) ==
    [i \in 1..n |-> <<"Submodule", Quote(SubmoduleNames[i]), Paren(Url \o "/" \o SubmoduleNames[i]),
                      "registered", "for", "path", Quote(SubmoduleNames[i])>>]

RemoteShowReport(w) ==
    << <<"*", "remote", upstream_name>>, <<"URL:", w.origin>>,
       <<"Remote", "branch", "merged", "with", "'git", "pull'", "while", "on", "branch", "master">> >>

-----------------------------------------------------------------------------
(* The external executable: what one invocation does to the world and       *)
(* prints, when nothing outside interferes.                                 *)

HeadOf(w, cwd) == IF cwd = NoCwd THEN cwdHead ELSE w.head

RemoteRefBranch(ref) ==
    \* the branch a remote-tracking ref names, None if it names none
    IF \E b \in Branches : ref = ListedPrefix \o "/" \o b \/ ref = upstream_name \o "/" \o b
    THEN CHOOSE b \in Branches : ref = ListedPrefix \o "/" \o b \/ ref = upstream_name \o "/" \o b
    ELSE None

ClonedBranch(w, argv) ==
    IF In("-b", argv)
    THEN (CHOOSE i \in 1..Len(argv) - 1 : argv[i] = "-b") + 1
    ELSE 0

GitExec(w, argv, cwd, newSubs) ==
    LET bad == [ok |-> FALSE, out |-> <<>>, w |-> w]
        good(out, w2) == [ok |-> TRUE, out |-> out, w |-> w2]
    IN  CASE argv[1] = "--version" -> good(<<installed>>, w)
          [] argv[1] = "symbolic-ref" ->
                IF HeadOf(w, cwd) = Detached THEN bad ELSE good(<< <<HeadOf(w, cwd)>> >>, w)
          [] argv[1] = "branch" /\ argv[2] = "-a" -> good(BranchListing(w), w)
          [] argv[1] = "branch" /\ argv[2] # "-a" ->
                IF argv[2] \in w.local \/ RemoteRefBranch(argv[3]) \notin w.remote THEN bad
                ELSE good(<<>>, [w EXCEPT !.local = @ \cup {argv[2]}])
          [] argv[1] = "checkout" /\ argv[2] # "-b" ->
                IF argv[2] \in w.local THEN good(<<>>, [w EXCEPT !.head = argv[2]])
                ELSE IF argv[2] = Rev THEN good(<<>>, [w EXCEPT !.head = Detached])
                ELSE bad
          [] argv[1] = "checkout" /\ argv[2] = "-b" ->
                IF argv[3] \in w.local \/ RemoteRefBranch(argv[4]) \notin w.remote THEN bad
                ELSE good(<<>>, [w EXCEPT !.local = @ \cup {argv[3]}, !.head = argv[3]])
          [] argv[1] = "fetch" -> good(<<>>, [w EXCEPT !.remote = w.server])
          [] argv[1] = "merge" ->
                IF RemoteRefBranch(argv[2]) \notin w.remote THEN bad
                ELSE good(<< <<"Already", "up-to-date.">> >>, w)
          [] argv[1] = "clone" ->
                LET i == ClonedBranch(w, argv)
                    b == IF i # 0 THEN argv[i]
                         ELSE IF w.server = {} THEN None
                         ELSE IF "master" \in w.server THEN "master"
                         ELSE CHOOSE x \in w.server : TRUE
                IN  IF w.exists \/ (i # 0 /\ b \notin w.server) THEN bad
                    ELSE good(<<>>, [w EXCEPT !.exists = TRUE, !.remote = w.server,
                                              !.local = IF b = None THEN {} ELSE {b},
                                              !.head = IF b = None THEN "master" ELSE b,
                                              !.tree = IF b = None THEN "unborn" ELSE "clean",
                                              !.origin = argv[Len(argv) - 1]])
          [] argv[1] = "config" -> good(<<>>, w)
          [] argv[1] = "push" ->
                IF argv[4] \notin w.local THEN bad
                ELSE good(<< <<"Branch", argv[4], "set", "up", "to", "track", "remote", "branch">> >>,
                          [w EXCEPT !.server = @ \cup {argv[4]}, !.remote = @ \cup {argv[4]}])
          [] argv[1] = "status" -> good(StatusReport(w), w)
          [] argv[1] = "remote" -> good(RemoteShowReport(w), w)
          [] argv[1] = "submodule" /\ argv[2] = "init" -> good(SubmoduleInitReport(newSubs), w)
          [] argv[1] = "submodule" /\ argv[2] = "update" -> good(<<>>, w)

-----------------------------------------------------------------------------
(* The driver's methods.  A machine record m carries the descriptor, the    *)
(* transcript, the invocations issued so far in this operation, the version *)
(* memo, the world, the pending exception (exc), the value returned by the  *)
(* last call (val) and the stdout of the last invocation (last).  env holds *)
(* what the outside decides during one operation: which invocations exit    *)
(* non-zero (by position) and how many submodules init registers.           *)

Machine ==
    [source |-> source, stdout |-> git_stdout, calls |-> <<>>, memo |-> memo,
     w |-> world, exc |-> "none", val |-> None, tr |-> <<>>, last |-> <<>>]

Ok(m) == m.exc = "none"
Raise(m, e) == [m EXCEPT !.exc = e]
Return(m, v) == [m EXCEPT !.val = v]
\* m1 = <call>; <rest>
Let(m, F(_)) == F(m)
\* <call>; <rest>, where an exception of the call skips the rest
Then(m, F(_)) == IF m.exc = "none" THEN F(m) ELSE m
\* try: <call>  except GitError: <handler>
ExceptGitError(m, H(_)) == IF m.exc = "GitError" THEN H([m EXCEPT !.exc = "none"]) ELSE m

git_run(m, argv, cwd, env) ==
    IF cwd = Path /\ ~m.w.exists
    THEN Raise(m, "OSError")     \* Popen cannot enter a missing directory
    ELSE Let(GitExec(m.w, argv, cwd, env.newSubs), LAMBDA r :
         Let(Len(m.calls) + 1 \in env.fail \/ ~r.ok, LAMBDA failed :
             [m EXCEPT !.calls = Append(@, [argv |-> argv, cwd |-> cwd, rc |-> IF failed THEN 1 ELSE 0]),
                       !.stdout = Append(@, IF failed THEN <<>> ELSE r.out),
                       !.w = IF failed THEN @ ELSE r.w,
                       !.exc = IF failed THEN "GitError" ELSE "none",
                       !.val = None,
                       !.last = IF failed THEN <<>> ELSE r.out]))

RECURSIVE Join(_)
Join(outs) == IF outs = <<>> THEN <<>> ELSE outs[1] \o Join(Tail(outs))

git_output(m) == Join(m.stdout)

\* re.search("git version (\d+)\.(\d+)(\.\d+)?(\.\d+)?"): the groups, <<>> if no match
VersionMatchAt(toks, i) ==
    /\ i + 4 <= Len(toks)
    /\ toks[i] = "git" /\ toks[i + 1] = "version"
    /\ toks[i + 2] \in Digits /\ toks[i + 3] = "." /\ toks[i + 4] \in Digits
VersionGroups(toks, i) ==
    LET g3 == IF i + 6 <= Len(toks) /\ toks[i + 5] = "." /\ toks[i + 6] \in Digits
              THEN toks[i + 6] ELSE None
        g4 == IF g3 # None /\ i + 8 <= Len(toks) /\ toks[i + 7] = "." /\ toks[i + 8] \in Digits
              THEN toks[i + 8] ELSE None
    IN  <<toks[i + 2], toks[i + 4], g3, g4>>
VersionSearch(out) ==
    IF \E l \in 1..Len(out) : \E i \in 1..Len(out[l]) : VersionMatchAt(out[l], i)
    THEN LET l == CHOOSE l \in 1..Len(out) :
                    /\ \E i \in 1..Len(out[l]) : VersionMatchAt(out[l], i)
                    /\ \A k \in 1..(l - 1) : \A i \in 1..Len(out[k]) : ~VersionMatchAt(out[k], i)
             i == CHOOSE i \in 1..Len(out[l]) :
                    /\ VersionMatchAt(out[l], i)
                    /\ \A k \in 1..(i - 1) : ~VersionMatchAt(out[l], k)
         IN  VersionGroups(out[l], i)
    ELSE <<>>
\* the tuple built from the groups of a match
VersionTuple(g) ==
    IF g[4] # None THEN <<IntOf(g[1]), IntOf(g[2]), IntOf(g[3]), IntOf(g[4])>>
    ELSE IF g[3] # None THEN <<IntOf(g[1]), IntOf(g[2]), IntOf(g[3])>>
    ELSE <<IntOf(g[1]), IntOf(g[2])>>

git_version(m, env) ==
    IF m.memo # <<>> THEN Return(m, m.memo)
    ELSE Let(git_run(m, <<"--version">>, NoCwd, env), LAMBDA m1 :
         IF m1.exc = "GitError" THEN Raise(m1, "SystemExit")
         ELSE Let(VersionSearch(m1.last), LAMBDA g :
              IF g = <<>> THEN Raise(m1, "SystemExit")
              ELSE IF TupleLess(VersionTuple(g), <<1, 5>>) THEN Raise(m1, "SystemExit")
              ELSE [m1 EXCEPT !.memo = VersionTuple(g), !.val = VersionTuple(g)]))

\* mutant: (1, 6, 3) still gets the old prefix
remote_branch_prefix_from_1_6_4(m, env) ==
    Then(git_version(m, env), LAMBDA m1 :
        IF TupleLess(m1.val, <<1, 6, 4>>) THEN Return(m1, upstream_name)
        ELSE Return(m1, "remotes/" \o upstream_name))

remote_branch_prefix(m, env) ==
    Then(git_version(m, env), LAMBDA m1 :
        IF TupleLess(m1.val, <<1, 6, 3>>) THEN Return(m1, upstream_name)
        ELSE Return(m1, "remotes/" \o upstream_name))

git_current_branch(m, cwd, env) ==
    Let(git_run(m, <<"symbolic-ref", "--short", "HEAD">>, cwd, env), LAMBDA m1 :
        IF m1.exc = "GitError" THEN Return(Raise(m1, "none"), None)
        ELSE IF ~Ok(m1) THEN m1
        ELSE Return(m1, IF m1.last = <<>> \/ m1.last[1] = <<>> THEN "" ELSE m1.last[1][1]))

\* re.search(pattern, output, re.M) for a pattern "^...$" of literal tokens
LineSearch(out, line) == \E i \in 1..Len(out) : out[i] = line

git_branch_status(m, branch, env) ==
    Then(git_run(m, <<"branch", "-a">>, Path, env), LAMBDA m1 :
    Then(remote_branch_prefix(m1, env), LAMBDA m2 :
        Return(m2, <<LineSearch(m1.last, <<"*", branch>>) \/ LineSearch(m1.last, <<" ", branch>>),
                     LineSearch(m1.last, <<" ", m2.val \o "/" \o branch>>)>>)))

\* mutant: the last preferred entry is taken, not the first
auto_select_branch_last_preferred(m, env) ==
    IF Get(m.source, "branch", None) # None \/ ~Has(m.source, "preferred-branches")
    THEN Return(m, None)
    ELSE Then(git_current_branch(m, NoCwd, env), LAMBDA m1 :
         IF m1.val = None THEN Return(m1, None)
         ELSE LET preferred == m.source["preferred-branches"]
                  current == IF ~In(m1.val, preferred) /\ Len(preferred) # 0
                             THEN preferred[Len(preferred)] ELSE m1.val
              IN  Return([m1 EXCEPT !.source = Put(@, "branch", current)], None))

\* mutant: a branch already in the descriptor does not stop the selection
auto_select_branch_every_call(m, env) ==
    IF ~Has(m.source, "preferred-branches")
    THEN Return(m, None)
    ELSE Then(git_current_branch(m, NoCwd, env), LAMBDA m1 :
         IF m1.val = None THEN Return(m1, None)
         ELSE LET preferred == m.source["preferred-branches"]
                  current == IF ~In(m1.val, preferred) /\ Len(preferred) # 0 THEN preferred[1] ELSE m1.val
              IN  Return([m1 EXCEPT !.source = Put(@, "branch", current)], None))

auto_select_branch(m, env) ==
    IF Get(m.source, "branch", None) # None \/ ~Has(m.source, "preferred-branches")
    THEN Return(m, None)
    ELSE Then(git_current_branch(m, NoCwd, env), LAMBDA m1 :
         IF m1.val = None THEN Return(m1, None)
         ELSE LET preferred == m.source["preferred-branches"]
                  current == IF ~In(m1.val, preferred) /\ Len(preferred) # 0 THEN preferred[1] ELSE m1.val
              IN  Return([m1 EXCEPT !.source = Put(@, "branch", current)], None))

\* mutant: a branch that is on the remote is merged, local or not
git_merge_rbranch_remote_only(m, accept_missing, env) ==
    LET branch == Get(m.source, "branch", "master")
    IN  Then(git_branch_status(m, branch, env), LAMBDA m1 :
            IF ~m1.val[2]
            THEN IF accept_missing THEN Return(m1, None) ELSE Raise(m1, "SystemExit")
            ELSE Then(remote_branch_prefix(m1, env), LAMBDA m2 :
                 Return(git_run(m2, <<"merge", m2.val \o "/" \o branch>>, Path, env), None)))

git_merge_rbranch(m, accept_missing, env) ==
    LET branch == Get(m.source, "branch", "master")
    IN  Then(git_branch_status(m, branch, env), LAMBDA m1 :
            IF ~m1.val[1] \/ ~m1.val[2]
            THEN IF accept_missing THEN Return(m1, None) ELSE Raise(m1, "SystemExit")
            ELSE Then(remote_branch_prefix(m1, env), LAMBDA m2 :
                 Return(git_run(m2, <<"merge", m2.val \o "/" \o branch>>, Path, env), None)))

\* mutant: a branch on the remote is looked for before a local one
git_switch_branch_remote_first(m, accept_missing, env) ==
    LET branch == Get(m.source, "branch", "master")
    IN  Then(git_branch_status(m, branch, env), LAMBDA m1 :
            IF Has(m.source, "rev")
            THEN Return(git_run(m1, <<"checkout", m.source["rev"]>>, Path, env), None)
            ELSE IF m1.val[2]
            THEN Then(remote_branch_prefix(m1, env), LAMBDA m2 :
                 Return(git_run(m2, <<"checkout", "-b", branch, m2.val \o "/" \o branch>>, Path, env), None))
            ELSE IF m1.val[1]
            THEN Return(git_run(m1, <<"checkout", branch>>, Path, env), None)
            ELSE IF accept_missing THEN Return(m1, None)
            ELSE Raise(m1, "GitError"))

git_switch_branch(m, accept_missing, env) ==
    LET branch == Get(m.source, "branch", "master")
    IN  Then(git_branch_status(m, branch, env), LAMBDA m1 :
            IF Has(m.source, "rev")
            THEN Return(git_run(m1, <<"checkout", m.source["rev"]>>, Path, env), None)
            ELSE IF m1.val[1]
            THEN Return(git_run(m1, <<"checkout", branch>>, Path, env), None)
            ELSE IF m1.val[2]
            THEN Then(remote_branch_prefix(m1, env), LAMBDA m2 :
                 Return(git_run(m2, <<"checkout", "-b", branch, m2.val \o "/" \o branch>>, Path, env), None))
            ELSE IF accept_missing THEN Return(m1, None)
            ELSE Raise(m1, "GitError"))

git_set_pushurl(m, env) ==
    Return(git_run(m, <<"config", "remote." \o upstream_name \o ".pushurl", m.source["pushurl"]>>, Path, env), None)

\* re.findall(r'\s+[\'"](.*?)[\'"]\s+\(.+\)'): a quoted name followed by a parenthesised text
IsQuoted(tok) == \E i \in 1..Len(SubmoduleNames) : tok = Quote(SubmoduleNames[i])
Unquote(tok) == SubmoduleNames[CHOOSE i \in 1..Len(SubmoduleNames) : tok = Quote(SubmoduleNames[i])]
IsParen(tok) == \E i \in 1..Len(SubmoduleNames) : tok = Paren(Url \o "/" \o SubmoduleNames[i])
RECURSIVE FindQuoted(_)
FindQuoted(toks) ==
    IF Len(toks) < 3 THEN <<>>
    ELSE IF IsQuoted(toks[2]) /\ IsParen(toks[3])
         THEN <<Unquote(toks[2])>> \o FindQuoted(SubSeq(toks, 4, Len(toks)))
         ELSE FindQuoted(Tail(toks))
RECURSIVE FindAllQuoted(_)
FindAllQuoted(out) ==
    IF out = <<>> THEN <<>> ELSE FindQuoted(out[1]) \o FindAllQuoted(Tail(out))

git_init_submodules(m, env) ==
    Then(git_run(m, <<"submodule", "init">>, Path, env), LAMBDA m1 :
        Return(m1, FindAllQuoted(m1.last)))

git_update_submodules(m, submodule, env) ==
    \* line 350 passes the undefined name arv: NameError before anything is run
    Raise(m, "NameError")

RECURSIVE update_each(_, _, _)
\* for submodule in initialized: self.git_update_submodules(submodule=submodule)
update_each(m, initialized, env) ==
    IF initialized = <<>> \/ ~Ok(m) THEN m
    ELSE update_each(git_update_submodules(m, initialized[1], env), Tail(initialized), env)

\* initialized = self.git_init_submodules(); then the loop over initialized
init_and_update_submodules(m, env) ==
    Then(git_init_submodules(m, env), LAMBDA m1 : update_each(m1, m1.val, env))

Transcript == "<transcript>"
ReturnOutput(m, v) == [m EXCEPT !.val = v, !.tr = git_output(m)]

\* mutant: the push URL is recorded before the revision is switched to
git_checkout_pushurl_first(m, kwargs, env) ==
    LET args == <<"clone", "--quiet">>
                \o (IF Has(m.source, "depth") THEN <<"--depth", m.source["depth"]>> ELSE <<>>)
                \o (IF Has(m.source, "branch") THEN <<"-b", m.source["branch"]>> ELSE <<>>)
                \o <<m.source["url"], Path>>
    IN  IF m.w.exists THEN Return(m, None)
        ELSE
        Then(git_run(m, args, NoCwd, env), LAMBDA m1 :
        Then(IF Has(m.source, "pushurl") THEN git_set_pushurl(m1, env) ELSE m1, LAMBDA m2 :
        Then(IF Has(m.source, "rev") THEN git_switch_branch(m2, FALSE, env) ELSE m2, LAMBDA m3 :
        Then(IF Get(m.source, "submodules", kwargs.submodules) \in {"always", "checkout"}
             THEN init_and_update_submodules(m3, env) ELSE m3, LAMBDA m4 :
        IF kwargs.verbose THEN ReturnOutput(m4, Transcript) ELSE Return(m4, None)))))

\* mutant: the test for an existing path is gone
git_checkout_always_clones(m, kwargs, env) ==
    LET args == <<"clone", "--quiet">>
                \o (IF Has(m.source, "depth") THEN <<"--depth", m.source["depth"]>> ELSE <<>>)
                \o (IF Has(m.source, "branch") THEN <<"-b", m.source["branch"]>> ELSE <<>>)
                \o <<m.source["url"], Path>>
    IN  Then(git_run(m, args, NoCwd, env), LAMBDA m1 :
        Then(IF Has(m.source, "rev") THEN git_switch_branch(m1, FALSE, env) ELSE m1, LAMBDA m2 :
        Then(IF Has(m.source, "pushurl") THEN git_set_pushurl(m2, env) ELSE m2, LAMBDA m3 :
        Then(IF Get(m.source, "submodules", kwargs.submodules) \in {"always", "checkout"}
             THEN init_and_update_submodules(m3, env) ELSE m3, LAMBDA m4 :
        IF kwargs.verbose THEN ReturnOutput(m4, Transcript) ELSE Return(m4, None)))))

git_checkout(m, kwargs, env) ==
    LET args == <<"clone", "--quiet">>
                \o (IF Has(m.source, "depth") THEN <<"--depth", m.source["depth"]>> ELSE <<>>)
                \o (IF Has(m.source, "branch") THEN <<"-b", m.source["branch"]>> ELSE <<>>)
                \o <<m.source["url"], Path>>
    IN  IF m.w.exists THEN Return(m, None)
        ELSE
        Then(git_run(m, args, NoCwd, env), LAMBDA m1 :
        Then(IF Has(m.source, "rev") THEN git_switch_branch(m1, FALSE, env) ELSE m1, LAMBDA m2 :
        Then(IF Has(m.source, "pushurl") THEN git_set_pushurl(m2, env) ELSE m2, LAMBDA m3 :
        Then(IF Get(m.source, "submodules", kwargs.submodules) \in {"always", "checkout"}
             THEN init_and_update_submodules(m3, env) ELSE m3, LAMBDA m4 :
        IF kwargs.verbose THEN ReturnOutput(m4, Transcript) ELSE Return(m4, None)))))

\* mutant: the policy 'checkout' sets the submodules up on an update too
git_update_policy_checkout(m, kwargs, env) ==
    Then(git_run(m, <<"fetch", "--prune">>, Path, env), LAMBDA m1 :
    Then(IF Has(m.source, "rev") THEN git_switch_branch(m1, FALSE, env)
         ELSE IF Has(m.source, "branch")
              THEN Then(git_switch_branch(m1, FALSE, env), LAMBDA s : git_merge_rbranch(s, FALSE, env))
         ELSE Then(git_switch_branch(m1, TRUE, env), LAMBDA s : git_merge_rbranch(s, TRUE, env)),
         LAMBDA m2 :
    Then(IF Get(m.source, "submodules", kwargs.submodules) \in {"always", "checkout"}
         THEN init_and_update_submodules(m2, env) ELSE m2, LAMBDA m3 :
    IF kwargs.verbose THEN ReturnOutput(m3, Transcript) ELSE Return(m3, None))))

\* mutant: with a branch, the merge comes before the switch
git_update_merge_first(m, kwargs, env) ==
    Then(git_run(m, <<"fetch", "--prune">>, Path, env), LAMBDA m1 :
    Then(IF Has(m.source, "rev") THEN git_switch_branch(m1, FALSE, env)
         ELSE IF Has(m.source, "branch")
              THEN Then(git_merge_rbranch(m1, FALSE, env), LAMBDA s : git_switch_branch(s, FALSE, env))
         ELSE Then(git_switch_branch(m1, TRUE, env), LAMBDA s : git_merge_rbranch(s, TRUE, env)),
         LAMBDA m2 :
    Then(IF Get(m.source, "submodules", kwargs.submodules) \in {"always"}
         THEN init_and_update_submodules(m2, env) ELSE m2, LAMBDA m3 :
    IF kwargs.verbose THEN ReturnOutput(m3, Transcript) ELSE Return(m3, None))))

\* mutant: without rev and branch a missing 'master' is not accepted either
git_update_strict_fallback(m, kwargs, env) ==
    Then(git_run(m, <<"fetch", "--prune">>, Path, env), LAMBDA m1 :
    Then(IF Has(m.source, "rev") THEN git_switch_branch(m1, FALSE, env)
         ELSE IF Has(m.source, "branch")
              THEN Then(git_switch_branch(m1, FALSE, env), LAMBDA s : git_merge_rbranch(s, FALSE, env))
         ELSE Then(git_switch_branch(m1, FALSE, env), LAMBDA s : git_merge_rbranch(s, FALSE, env)),
         LAMBDA m2 :
    Then(IF Get(m.source, "submodules", kwargs.submodules) \in {"always"}
         THEN init_and_update_submodules(m2, env) ELSE m2, LAMBDA m3 :
    IF kwargs.verbose THEN ReturnOutput(m3, Transcript) ELSE Return(m3, None))))

git_update(m, kwargs, env) ==
    Then(git_run(m, <<"fetch", "--prune">>, Path, env), LAMBDA m1 :
    Then(IF Has(m.source, "rev") THEN git_switch_branch(m1, FALSE, env)
         ELSE IF Has(m.source, "branch")
              THEN Then(git_switch_branch(m1, FALSE, env), LAMBDA s : git_merge_rbranch(s, FALSE, env))
         ELSE Then(git_switch_branch(m1, TRUE, env), LAMBDA s : git_merge_rbranch(s, TRUE, env)),
         LAMBDA m2 :
    Then(IF Get(m.source, "submodules", kwargs.submodules) \in {"always"}
         THEN init_and_update_submodules(m2, env) ELSE m2, LAMBDA m3 :
    IF kwargs.verbose THEN ReturnOutput(m3, Transcript) ELSE Return(m3, None))))

\* output.strip().split('\n'): blank lines at both ends go, and nothing at all is one empty line
RECURSIVE Strip(_)
Strip(out) ==
    IF out = <<>> THEN <<>>
    ELSE IF out[1] = <<>> THEN Strip(Tail(out))
    ELSE IF out[Len(out)] = <<>> THEN Strip(SubSeq(out, 1, Len(out) - 1))
    ELSE out
StripSplit(out) == IF Strip(out) = <<>> THEN << <<>> >> ELSE Strip(out)

\* b('ahead') in line
Contains(line, word) == \E i \in 1..Len(line) : line[i] = word

\* mutant: a report of no line at all is not taken for one line
StatusLabel_empty_is_dirty(lines) ==
    IF Len(lines) = 1 /\ lines[1] # <<>>
    THEN IF Contains(lines[1], "ahead") THEN "ahead" ELSE "clean"
    ELSE "dirty"

\* the label status() gives a report
StatusLabel(lines) ==
    IF Len(lines) = 1
    THEN IF Contains(lines[1], "ahead") THEN "ahead" ELSE "clean"
    ELSE "dirty"

status(m, kwargs, env) ==
    Then(git_run(m, <<"status", "-s", "-b">>, Path, env), LAMBDA m1 :
        IF kwargs.verbose THEN ReturnOutput(m1, StatusLabel(StripSplit(m1.last)))
        ELSE Return(m1, StatusLabel(StripSplit(m1.last))))

\* self.source['url'] in s(output).split()
RECURSIVE Tokens(_)
Tokens(out) == IF out = <<>> THEN {} ELSE {out[1][i] : i \in 1..Len(out[1])} \cup Tokens(Tail(out))

matches(m, env) ==
    Then(git_run(m, <<"remote", "show", "-n", upstream_name>>, Path, env), LAMBDA m1 :
        Return(m1, m.source["url"] \in Tokens(m1.last)))

\* mutant: only a dirty tree is refused, a tree that is ahead is updated
update_refuses_dirty_only(m, kwargs, env) ==
    Then(matches(m, env), LAMBDA m1 :
    Then(status(m1, [kwargs EXCEPT !.verbose = FALSE], env), LAMBDA m2 :
        IF m2.val = "dirty" /\ ~kwargs.force THEN Raise(m2, "GitError")
        ELSE Then(auto_select_branch(m2, env), LAMBDA m3 : git_update(m3, kwargs, env))))

update(m, kwargs, env) ==
    Then(matches(m, env), LAMBDA m1 :
    Then(status(m1, [kwargs EXCEPT !.verbose = FALSE], env), LAMBDA m2 :
        IF m2.val # "clean" /\ ~kwargs.force THEN Raise(m2, "GitError")
        ELSE Then(auto_select_branch(m2, env), LAMBDA m3 : git_update(m3, kwargs, env))))

checkout(m, kwargs, env) ==
    Then(auto_select_branch(m, env), LAMBDA m1 :
        IF m1.w.exists
        THEN IF kwargs.update THEN update(m1, kwargs, env)
             ELSE Then(matches(m1, env), LAMBDA m2 : Return(m2, None))
        ELSE git_checkout(m1, kwargs, env))

\* new_feature from line 116 on: c is the machine after the current-branch query
new_feature_branch(c, current, preferred, kwargs, env) ==
    Then(IF c.w.exists THEN git_run(c, <<"fetch", "--prune">>, Path, env)
         ELSE git_checkout(c, kwargs, env), LAMBDA m1 :
    Then(git_branch_status(m1, current, env), LAMBDA m2 :
    \* the bare except logs and raises again: whatever was raised goes on
    Then(IF m2.val[1] THEN m2
         ELSE Then(remote_branch_prefix(m2, env), LAMBDA p :
              git_run(p, <<"branch", current, p.val \o "/" \o preferred[1]>>, Path, env)), LAMBDA m3 :
    Then(git_current_branch(m3, Path, env), LAMBDA h :
    Then(ExceptGitError(IF current # h.val THEN git_run(h, <<"checkout", current>>, Path, env) ELSE h,
                        LAMBDA x : Return(Raise(x, "return"), "False")), LAMBDA m4 :
    Then(ExceptGitError(IF ~m2.val[2]
                        THEN git_run(m4, <<"push", "--set-upstream", upstream_name, current>>, Path, env)
                        ELSE m4,
                        LAMBDA x : Return(Raise(x, "return"), "False")), LAMBDA m5 :
    Return(m5, "True")))))))

\* mutant: a current branch of the preferred list is not turned away
new_feature_from_any_branch(m, kwargs, env) ==
    Let(git_current_branch(m, NoCwd, env), LAMBDA c :
        IF c.val = None \/ ~Has(m.source, "preferred-branches") THEN Return(c, "False")
        ELSE IF Len(m.source["preferred-branches"]) = 0 THEN Return(c, "False")
        ELSE Let(new_feature_branch(c, c.val, m.source["preferred-branches"], kwargs, env), LAMBDA r :
             IF r.exc = "return" THEN Raise(r, "none") ELSE r))

new_feature(m, kwargs, env) ==
    Let(git_current_branch(m, NoCwd, env), LAMBDA c :
        IF c.val = None \/ ~Has(m.source, "preferred-branches") THEN Return(c, "False")
        ELSE IF In(c.val, m.source["preferred-branches"]) THEN Return(c, "False")
        ELSE IF Len(m.source["preferred-branches"]) = 0 THEN Return(c, "False")
        ELSE Let(new_feature_branch(c, c.val, m.source["preferred-branches"], kwargs, env), LAMBDA r :
             IF r.exc = "return" THEN Raise(r, "none") ELSE r))

-----------------------------------------------------------------------------
(* Construction *)

\* mutant: the conflict is looked for before 'revision' has been renamed to 'rev'
GitWorkingCopy_conflict_before_alias(src) ==
    LET canonical == IF Has(src, "revision") THEN Del(Put(src, "rev", src["revision"]), "revision") ELSE src
    IN  IF Has(src, "rev") /\ Has(src, "revision")
        THEN [source |-> src, attrs |-> {"git_executable"}, exc |-> "ValueError"]
        ELSE IF Has(src, "branch") /\ Has(src, "rev")
        THEN [source |-> canonical, attrs |-> {"git_executable"}, exc |-> "SystemExit"]
        ELSE [source |-> canonical, attrs |-> {"git_executable", "_git_stdout", "source"}, exc |-> "none"]

\* GitWorkingCopy.__init__: the descriptor and attributes it leaves, and how it ends
GitWorkingCopy(src) ==
    LET canonical == IF Has(src, "revision") THEN Del(Put(src, "rev", src["revision"]), "revision") ELSE src
    IN  IF Has(src, "rev") /\ Has(src, "revision")
        THEN [source |-> src, attrs |-> {"git_executable"}, exc |-> "ValueError"]
        ELSE IF Has(canonical, "branch") /\ Has(canonical, "rev")
        THEN [source |-> canonical, attrs |-> {"git_executable"}, exc |-> "SystemExit"]
        ELSE [source |-> canonical, attrs |-> {"git_executable", "_git_stdout", "source"}, exc |-> "none"]

-----------------------------------------------------------------------------
(* The states a run starts from *)

Descriptor(keys, preferred, policy) ==
    [k \in {"name", "path", "url"} \cup keys |->
        CASE k = "name" -> Name
          [] k = "path" -> Path
          [] k = "url" -> Url
          [] k = "rev" -> Rev
          [] k = "revision" -> Rev
          [] k = "branch" -> "dev"
          [] k = "preferred-branches" -> preferred
          [] k = "pushurl" -> PushUrl
          [] k = "depth" -> "1"
          [] k = "submodules" -> policy]

Policies == {"always", "checkout", "never"}
RefKeys == {"rev", "revision", "branch", "preferred-branches"}
CloneKeys == {"pushurl", "depth", "submodules"}

\* descriptors for a path that is not there yet
NewDescriptors ==
    {Descriptor(K, <<"master", "dev">>, s) : K \in SUBSET (RefKeys \cup CloneKeys), s \in Policies}
\* descriptors for a checkout that is there
OldDescriptors ==
    {Descriptor(K, <<"master", "dev">>, "always") : K \in SUBSET {"rev", "branch", "preferred-branches", "submodules"}}
    \cup {Descriptor({"preferred-branches"}, <<>>, "never")}

NoCheckout(server) ==
    [exists |-> FALSE, local |-> {}, remote |-> {}, head |-> Detached, tree |-> "clean",
     server |-> server, origin |-> Url]
Checkout(local, remote, head, tree) ==
    [exists |-> TRUE, local |-> local, remote |-> remote, head |-> head, tree |-> tree,
     server |-> remote, origin |-> Url]
BaseCheckout == Checkout({"master"}, {"master", "dev"}, "master", "clean")
\* a repository without a commit: status prints nothing
Unborn == Checkout({}, {}, "master", "unborn")
Checkouts ==
    {Checkout(l, r, h, "clean") : l \in (SUBSET {"master", "dev"}) \ {{}}, r \in {{}, {"master", "dev"}},
                                  h \in {"master", "dev", Detached}}
    \cup {Checkout({"master", "dev"}, {"master", "dev"}, h, t) : h \in {"dev", Detached}, t \in {"ahead", "dirty"}}

VersionLine(v) == <<"git", "version">> \o v
Modern == VersionLine(<<"2", ".", "30", ".", "1", ".", "2">>)
Old == VersionLine(<<"1", ".", "6", ".", "2">>)
\* the versions on both sides of the (1, 6, 3) and (1, 5) tests
EdgeVersions ==
    {VersionLine(<<"1", ".", "5">>), VersionLine(<<"1", ".", "6">>),
     VersionLine(<<"1", ".", "6", ".", "3">>), VersionLine(<<"1", ".", "6", ".", "2", ".", "5">>)}
BadVersions == {VersionLine(<<"1", ".", "4", ".", "0">>), <<"git", "version", "unknown">>}

NoResult == [op |-> "none", args |-> <<>>, exc |-> "none", val |-> None, tr |-> <<>>]

\* a path still to be cloned
InitNew ==
    /\ source \in NewDescriptors
    /\ world = NoCheckout({"master", "dev"})
    /\ cwdHead \in IF Has(source, "preferred-branches") THEN {"master", Feature} ELSE {"master"}
    /\ installed = Modern
    /\ left = MaxOps - 1
\* a checkout in any of its branch states
InitOld ==
    /\ source \in OldDescriptors
    /\ world \in {w \in Checkouts : w.head = Detached \/ w.head \in w.local}
    /\ cwdHead \in IF Has(source, "preferred-branches") THEN {"master", Feature, Detached} ELSE {"master"}
    /\ installed = Modern
    /\ left = MaxOps - 1
\* every git the driver may meet, and a checkout of another URL
InitTool ==
    /\ source \in {Descriptor({"branch"}, <<>>, "never"), Descriptor({}, <<>>, "never")}
    /\ world \in {BaseCheckout, [BaseCheckout EXCEPT !.origin = OtherUrl], Unborn}
    /\ cwdHead = "master"
    /\ installed \in {Modern, Old} \cup EdgeVersions \cup BadVersions
    /\ left = MaxOps - 1
\* a driver used for several operations in a row
InitLife ==
    /\ source \in {Descriptor({"submodules"}, <<>>, "never"),
                   Descriptor({"submodules", "branch"}, <<>>, "never"),
                   Descriptor({"submodules", "preferred-branches"}, <<"master", "dev">>, "never"),
                   Descriptor({"submodules", "preferred-branches"}, <<"dev", "master">>, "never"),
                   Descriptor({"submodules", "rev", "preferred-branches"}, <<"master", "dev">>, "never")}
    /\ world = BaseCheckout
    /\ cwdHead \in IF Get(source, "preferred-branches", <<>>) = <<"dev", "master">> THEN {"master"} ELSE {Feature}
    /\ installed = Modern
    /\ left = MaxOps

Init ==
    /\ driver = "none"
    /\ attrs = {}
    /\ git_stdout = <<>>
    /\ memo = <<>>
    /\ calls = <<>>
    /\ result = NoResult
    /\ \/ InitNew
       \/ InitOld
       \/ InitTool
       \/ InitLife

-----------------------------------------------------------------------------
(* Operations *)

\* what the outside decides during one operation
FailSets(n) == {F \in SUBSET (1..n) : Cardinality(F) <= MaxFailures}
NoKwargs == [submodules |-> "never", verbose |-> FALSE, force |-> FALSE, update |-> FALSE]
\* the caller's default policy only matters to a descriptor without one
Defaults == IF Has(source, "submodules") THEN {"never"} ELSE Policies
\* what init can register only matters when the policy lets it run
NewSubs(sub) ==
    IF Get(source, "submodules", sub) \in {"always", "checkout"} THEN 0..MaxSubmodules ELSE {0}

Ready == driver = "ready" /\ left > 0

\* the state an operation leaves, from the machine it ended in
Finish(m, op, args) ==
    /\ source' = m.source
    /\ git_stdout' = m.stdout
    /\ memo' = m.memo
    /\ world' = m.w
    /\ calls' = m.calls
    /\ driver' = IF m.exc = "SystemExit" THEN "dead" ELSE driver
    /\ result' = [op |-> op, args |-> args, exc |-> m.exc,
                  val |-> IF m.exc = "none" THEN m.val ELSE None,
                  tr |-> IF m.exc = "none" THEN m.tr ELSE <<>>]
    /\ left' = left - 1
    /\ UNCHANGED <<attrs, cwdHead, installed>>

\* one operation Op under every outside the run can meet: an invocation can
\* only fail where the operation issues one
Run(Op(_), op, args, subs) ==
    \E k \in subs :
        LET quiet == Op([fail |-> {}, newSubs |-> k])
        IN  \E F \in FailSets(Len(quiet.calls) + MaxFailures - 1) :
                LET m == Op([fail |-> F, newSubs |-> k])
                IN  /\ \A i \in F : i <= Len(m.calls)
                    /\ Finish(m, op, args)

Construct ==
    /\ driver = "none"
    /\ LET c == GitWorkingCopy(source)
       IN  /\ source' = c.source
           /\ attrs' = c.attrs
           /\ driver' = CASE c.exc = "none" -> "ready"
                          [] c.exc = "SystemExit" -> "dead"
                          [] c.exc = "ValueError" -> "failed"
           /\ result' = [op |-> "__init__", args |-> <<>>, exc |-> c.exc, val |-> None, tr |-> <<>>]
    /\ UNCHANGED <<git_stdout, memo, world, cwdHead, installed, calls, left>>

DoCheckout ==
    /\ Ready
    /\ \E sub \in Defaults, verbose \in BOOLEAN :
       \E upd \in IF world.exists THEN BOOLEAN ELSE {FALSE} :
       \E force \in IF upd THEN BOOLEAN ELSE {FALSE} :
          LET kwargs == [submodules |-> sub, verbose |-> verbose, force |-> force, update |-> upd]
          IN  Run(LAMBDA env : checkout(Machine, kwargs, env), "checkout", kwargs, NewSubs(sub))

DoUpdate ==
    /\ Ready
    /\ \E sub \in Defaults, verbose \in BOOLEAN, force \in BOOLEAN :
          LET kwargs == [submodules |-> sub, verbose |-> verbose, force |-> force, update |-> FALSE]
          IN  Run(LAMBDA env : update(Machine, kwargs, env), "update", kwargs, NewSubs(sub))

DoStatus ==
    /\ Ready
    /\ \E verbose \in BOOLEAN :
          LET kwargs == [NoKwargs EXCEPT !.verbose = verbose]
          IN  Run(LAMBDA env : status(Machine, kwargs, env), "status", kwargs, {0})

DoNewFeature ==
    /\ Ready
    /\ \E sub \in Defaults :
          LET kwargs == [NoKwargs EXCEPT !.submodules = sub]
          IN  Run(LAMBDA env : new_feature(Machine, kwargs, env), "new_feature", kwargs, NewSubs(sub))

DoGitCheckout ==
    /\ Ready
    /\ \E sub \in Defaults, verbose \in BOOLEAN :
          LET kwargs == [NoKwargs EXCEPT !.submodules = sub, !.verbose = verbose]
          IN  Run(LAMBDA env : git_checkout(Machine, kwargs, env), "git_checkout", kwargs, NewSubs(sub))

DoGitSwitchBranch ==
    /\ Ready
    /\ \E accept_missing \in BOOLEAN :
          Run(LAMBDA env : git_switch_branch(Machine, accept_missing, env), "git_switch_branch",
              [accept_missing |-> accept_missing], {0})

DoGitMergeRbranch ==
    /\ Ready
    /\ \E accept_missing \in BOOLEAN :
          Run(LAMBDA env : git_merge_rbranch(Machine, accept_missing, env), "git_merge_rbranch",
              [accept_missing |-> accept_missing], {0})

DoAutoSelectBranch ==
    /\ Ready
    /\ Run(LAMBDA env : auto_select_branch(Machine, env), "auto_select_branch", <<>>, {0})

\* between two operations the branch checked out in the process's working
\* directory, which git_current_branch() reads, becomes another one
ChangeBranch ==
    /\ Ready
    /\ result.op \notin {"none", "__init__"}
    /\ Has(source, "preferred-branches")
    /\ cwdHead' \in {"master", Feature, Detached} \ {cwdHead}
    /\ UNCHANGED <<source, attrs, driver, git_stdout, memo, world, installed, calls, result, left>>

Next ==
    \/ Construct
    \/ DoCheckout
    \/ DoUpdate
    \/ DoStatus
    \/ DoNewFeature
    \/ DoGitCheckout
    \/ DoGitSwitchBranch
    \/ DoGitMergeRbranch
    \/ DoAutoSelectBranch
    \/ ChangeBranch

Spec == Init /\ [][Next]_vars

-----------------------------------------------------------------------------
(* What the last operation's invocations were and printed *)

\* stdout of the i-th invocation of the last operation
OutOf(i) == git_stdout[Len(git_stdout) - Len(calls) + i]
Issued(P(_)) == \E i \in 1..Len(calls) : P(calls[i])
IsCmd(c, words) == Len(c.argv) >= Len(words) /\ SubSeq(c.argv, 1, Len(words)) = words
Prefix == IF TupleLess(memo, <<1, 6, 3>>) THEN upstream_name ELSE "remotes/" \o upstream_name
IsPrefixOf(s, t) == Len(s) <= Len(t) /\ SubSeq(t, 1, Len(s)) = s
\* the step is an operation of the driver, not a change of its surroundings
OperationStep == left' = left - 1

-----------------------------------------------------------------------------
(* C1: update() on a tree whose status is not 'clean': without force it     *)
(* raises GitError and has issued no fetch, checkout, merge or submodule    *)
(* invocation; with force it goes on to git_update and issues fetch --prune *)

\* the label of the report the status invocation of the last operation gave
ReportedStatus ==
    LET i == CHOOSE i \in 1..Len(calls) : IsCmd(calls[i], <<"status">>)
        lines == IF OutOf(i) = <<>> THEN << <<>> >> ELSE OutOf(i)
    IN  IF Len(lines) > 1 THEN "dirty"
        ELSE IF \E k \in 1..Len(lines[1]) : lines[1][k] = "ahead" THEN "ahead"
        ELSE "clean"
UpdateSawUnclean ==
    /\ result.op = "update"
    /\ Issued(LAMBDA c : IsCmd(c, <<"status">>) /\ c.rc = 0)
    /\ ReportedStatus # "clean"

C1_UpdateRefusesUncleanUnlessForced ==
    UpdateSawUnclean =>
        IF result.args.force
        THEN Issued(LAMBDA c : c.argv = <<"fetch", "--prune">>)
        ELSE /\ result.exc = "GitError"
             /\ ~Issued(LAMBDA c : c.argv[1] \in {"fetch", "checkout", "merge", "submodule", "clone"})

C1_Witness ==
    /\ UpdateSawUnclean
    /\ ~result.args.force
    /\ result.exc = "GitError"
    /\ world.tree = "ahead"

-----------------------------------------------------------------------------
(* C2: constructing a driver from a descriptor holding a revision ('rev' or *)
(* 'revision') and 'branch' fails before any invocation and before the      *)
(* transcript or the driver's state is set                                  *)

ConstructedWithRevAndBranch ==
    /\ result.op = "__init__"
    /\ Has(source, "branch")
    /\ Has(source, "rev") \/ Has(source, "revision")
NothingInitialised ==
    /\ calls = <<>>
    /\ git_stdout = <<>>
    /\ "_git_stdout" \notin attrs
    /\ "source" \notin attrs

\* the claim as stated: the failure is always the process exit
C2_Original ==
    ConstructedWithRevAndBranch => (driver = "dead" /\ result.exc = "SystemExit" /\ NothingInitialised)

\* amended: the failure is a ValueError when both 'rev' and 'revision' are given
C2_ConstructionFailsOnRevAndBranch ==
    ConstructedWithRevAndBranch =>
        /\ NothingInitialised
        /\ IF Has(source, "revision")
           THEN Has(source, "rev") /\ driver = "failed" /\ result.exc = "ValueError"
           ELSE driver = "dead" /\ result.exc = "SystemExit"

C2_Witness ==
    /\ ConstructedWithRevAndBranch
    /\ driver = "dead"
    /\ ~Has(source, "revision")

-----------------------------------------------------------------------------
(* C3: git_switch_branch decides on the branch listing it has just queried: *)
(* a rev is checked out whatever the listing says; else a local branch is   *)
(* checked out; else a remote one is checked out as a new tracking branch;  *)
(* else nothing is checked out, and the call returns when accept_missing    *)
(* and raises GitError otherwise.  Exactly one of the five happens.         *)

SwitchQueried ==
    /\ result.op = "git_switch_branch"
    /\ calls # <<>>
    /\ calls[1].argv = <<"branch", "-a">> /\ calls[1].rc = 0
    /\ memo # <<>>
SwitchTarget == Get(source, "branch", "master")
ListedLocal == \E i \in 1..Len(OutOf(1)) : OutOf(1)[i] \in {<<"*", SwitchTarget>>, <<" ", SwitchTarget>>}
ListedRemote == \E i \in 1..Len(OutOf(1)) : OutOf(1)[i] = <<" ", Prefix \o "/" \o SwitchTarget>>
CheckoutsIssued == SelectSeq(calls, LAMBDA c : c.argv[1] = "checkout")
SwitchExpected ==
    IF Has(source, "rev") THEN <<"checkout", source["rev"]>>
    ELSE IF ListedLocal THEN <<"checkout", SwitchTarget>>
    ELSE IF ListedRemote THEN <<"checkout", "-b", SwitchTarget, Prefix \o "/" \o SwitchTarget>>
    ELSE <<>>

C3_SwitchFollowsPriorityTable ==
    SwitchQueried =>
        IF SwitchExpected # <<>>
        THEN /\ Len(CheckoutsIssued) = 1
             /\ CheckoutsIssued[1].argv = SwitchExpected
             /\ calls[Len(calls)] = CheckoutsIssued[1]
             /\ result.exc = IF CheckoutsIssued[1].rc = 0 THEN "none" ELSE "GitError"
        ELSE /\ CheckoutsIssued = <<>>
             /\ result.exc = IF result.args.accept_missing THEN "none" ELSE "GitError"

C3_Witness ==
    /\ SwitchQueried
    /\ ~Has(source, "rev") /\ ~ListedLocal /\ ListedRemote
    /\ Len(CheckoutsIssued) = 1 /\ CheckoutsIssued[1].argv[2] = "-b"
    /\ result.exc = "none"

-----------------------------------------------------------------------------
(* C4: the process only ends for a failed version detection or a rev+branch *)
(* conflict at construction; no other failure of an operation ends it       *)

C4_ExitOnlyForVersionOrConflict ==
    driver = "dead" =>
        \/ result.op = "__init__"
        \/ calls # <<>> /\ calls[Len(calls)].argv = <<"--version">>

-----------------------------------------------------------------------------
(* C5: in new_feature a failing invocation at the branch-create, checkout   *)
(* or push step is caught: new_feature returns False, nothing propagates    *)

NewFeatureStepFailed ==
    /\ result.op = "new_feature"
    /\ calls # <<>>
    /\ LET c == calls[Len(calls)]
       IN  /\ c.rc # 0
           /\ \/ c.argv[1] = "branch" /\ c.argv[2] # "-a"
              \/ c.argv = <<"checkout", cwdHead>>
              \/ c.argv[1] = "push"

C5_NewFeatureCatchesStepFailures ==
    NewFeatureStepFailed => (result.exc = "none" /\ result.val = "False")

-----------------------------------------------------------------------------
(* C6: after a 'submodule init' that reports N new names, 'submodule update *)
(* <name>' is invoked once per name, in the reported order, each completes, *)
(* and 'submodule update' is never invoked without a name                   *)

UpdatesAfter(i) ==
    SelectSeq(SubSeq(calls, i + 1, Len(calls)), LAMBDA c : IsCmd(c, <<"submodule", "update">>))

C6_EachNewSubmoduleUpdated ==
    \A i \in 1..Len(calls) :
        (calls[i].argv = <<"submodule", "init">> /\ calls[i].rc = 0) =>
            LET names == FindAllQuoted(OutOf(i))
                ups == UpdatesAfter(i)
            IN  /\ Len(ups) = Len(names)
                /\ \A k \in 1..Len(ups) : ups[k].argv = <<"submodule", "update", names[k]>> /\ ups[k].rc = 0

-----------------------------------------------------------------------------
(* C7: git_checkout on a missing path invokes clone first (--depth iff      *)
(* depth, -b <branch> iff branch), then the revision switch iff rev, then   *)
(* the pushurl config iff pushurl, then submodule init iff the policy is    *)
(* 'always' or 'checkout'; a failed clone is the only invocation            *)

GitCheckoutCloned == result.op = "git_checkout" /\ calls # <<>>
CloneExpected ==
    <<"clone", "--quiet">>
    \o (IF Has(source, "depth") THEN <<"--depth", source["depth"]>> ELSE <<>>)
    \o (IF Has(source, "branch") THEN <<"-b", source["branch"]>> ELSE <<>>)
    \o <<source["url"], source["path"]>>
\* the invocations that act, without the queries a switch makes and the per-submodule updates
Steps ==
    LET acting == SelectSeq(calls, LAMBDA c : /\ c.argv[1] \in {"clone", "checkout", "config", "submodule"}
                                              /\ ~IsCmd(c, <<"submodule", "update">>))
    IN  [i \in 1..Len(acting) |-> acting[i].argv]
StepsExpected ==
    <<CloneExpected>>
    \o (IF Has(source, "rev") THEN << <<"checkout", source["rev"]>> >> ELSE <<>>)
    \o (IF Has(source, "pushurl")
        THEN << <<"config", "remote.origin.pushurl", source["pushurl"]>> >> ELSE <<>>)
    \o (IF Get(source, "submodules", result.args.submodules) \in {"always", "checkout"}
        THEN << <<"submodule", "init">> >> ELSE <<>>)
AllSucceeded == \A i \in 1..Len(calls) : calls[i].rc = 0

C7_GitCheckoutOrder ==
    GitCheckoutCloned =>
        /\ calls[1].argv = CloneExpected
        /\ IsPrefixOf(Steps, StepsExpected)
        /\ (AllSucceeded /\ driver # "dead") => Steps = StepsExpected
        /\ calls[1].rc # 0 => Len(calls) = 1
        /\ (DOMAIN source = {"name", "path", "url", "branch"} /\ result.args.submodules = "never")
              => Len(calls) = 1

C7_Witness ==
    /\ GitCheckoutCloned
    /\ AllSucceeded
    /\ Has(source, "rev") /\ Has(source, "pushurl") /\ Has(source, "depth")
    /\ Get(source, "submodules", result.args.submodules) = "checkout"
    /\ Len(Steps) = 4

-----------------------------------------------------------------------------
(* C8: git_checkout on a path that is already there invokes nothing and     *)
(* leaves the descriptor and the transcript as they were                    *)

C8_GitCheckoutOfExistingPathIsNoOp ==
    [][(OperationStep /\ result'.op = "git_checkout" /\ world.exists) =>
            /\ calls' = <<>>
            /\ source' = source
            /\ git_stdout' = git_stdout
            /\ world' = world
            /\ result'.exc = "none"]_vars

C8_Witness ==
    /\ result.op = "git_checkout"
    /\ calls = <<>>
    /\ world.exists
    /\ git_stdout # <<>>

-----------------------------------------------------------------------------
(* C9: auto_select_branch leaves the descriptor as it is when the           *)
(* descriptor pins a branch, or pins a rev, or has no preferred-branches    *)

C9_AutoSelectNoOpWhenPinned ==
    [][(/\ OperationStep
        /\ result'.op = "auto_select_branch"
        /\ \/ Has(source, "branch")
           \/ Has(source, "rev")
           \/ ~Has(source, "preferred-branches"))
            => source' = source]_vars

-----------------------------------------------------------------------------
(* C10: auto_select_branch, given a non-empty preferred-branches list, no   *)
(* branch and a current branch outside the list, sets the descriptor's      *)
(* branch to the first preferred entry, and the checkout or update that     *)
(* called it uses that branch for clone -b, for the switch and the merge    *)

\* auto_select_branch ran in the step and read a current branch outside the list
AutoSelected ==
    /\ OperationStep
    /\ result'.op \in {"checkout", "update", "auto_select_branch"}
    /\ ~Has(source, "branch")
    /\ Has(source, "preferred-branches")
    /\ Len(source["preferred-branches"]) > 0
    /\ ~In(cwdHead, source["preferred-branches"])
    /\ \E i \in 1..Len(calls') : calls'[i].argv[1] = "symbolic-ref" /\ calls'[i].cwd = NoCwd /\ calls'[i].rc = 0
UsesBranch(c, b) ==
    /\ c.argv[1] = "clone" => \E i \in 1..(Len(c.argv) - 1) : c.argv[i] = "-b" /\ c.argv[i + 1] = b
    /\ c.argv[1] = "checkout" => c.argv \in {<<"checkout", b>>, <<"checkout", "-b", b, "remotes/origin/" \o b>>,
                                             <<"checkout", "-b", b, "origin/" \o b>>}
    /\ c.argv[1] = "merge" => c.argv \in {<<"merge", "remotes/origin/" \o b>>, <<"merge", "origin/" \o b>>}
SelectsFirstPreferred ==
    /\ Has(source', "branch")
    /\ source'["branch"] = source["preferred-branches"][1]
    /\ \A i \in 1..Len(calls') : UsesBranch(calls'[i], source["preferred-branches"][1])

\* the claim as stated: whether or not the descriptor pins a rev
C10_Original ==
    [][AutoSelected => SelectsFirstPreferred]_vars

\* amended: for a descriptor that pins no rev either
C10_AutoSelectFirstPreferredDrivesOperation ==
    [][(AutoSelected /\ ~Has(source, "rev")) => SelectsFirstPreferred]_vars

C10_Witness ==
    /\ result.op = "update"
    /\ ~Has(source, "rev")
    /\ Has(source, "preferred-branches") /\ Has(source, "branch")
    /\ Len(source["preferred-branches"]) > 0
    /\ source["branch"] = source["preferred-branches"][1]
    /\ cwdHead = Feature
    /\ Issued(LAMBDA c : c.argv[1] = "symbolic-ref" /\ c.rc = 0)
    /\ Issued(LAMBDA c : c.argv[1] = "checkout" /\ c.rc = 0)
    /\ Issued(LAMBDA c : c.argv[1] = "merge" /\ c.rc = 0)

-----------------------------------------------------------------------------
(* C11: git_update runs 'submodule init' iff the effective policy is        *)
(* 'always'; git_checkout runs it iff the policy is 'always' or 'checkout'. *)
(* The effective policy is the descriptor's 'submodules' value when it has  *)
(* one, the caller's default otherwise.                                     *)

RanGitUpdate ==
    /\ result.op \in {"update", "checkout"}
    /\ Issued(LAMBDA c : c.argv[1] = "fetch")
RanGitCheckout ==
    /\ result.op \in {"checkout", "git_checkout"}
    /\ Issued(LAMBDA c : c.argv[1] = "clone")
EffectivePolicy ==
    IF "submodules" \in DOMAIN source THEN source["submodules"] ELSE result.args.submodules
SubmoduleIssued == Issued(LAMBDA c : c.argv[1] = "submodule")
InitIssued == Issued(LAMBDA c : c.argv = <<"submodule", "init">>)

-----------------------------------------------------------------------------
(* C12: git_update invokes 'fetch --prune' before any branch listing,       *)
(* checkout or merge, and nothing after a fetch that fails; with a rev it   *)
(* switches and never merges; with a branch it switches to the branch and   *)
(* then merges its remote counterpart; with neither it does the same        *)
(* toward 'master'                                                          *)

FetchAt == CHOOSE i \in 1..Len(calls) : calls[i].argv[1] = "fetch"
UpdateTarget == Get(source, "branch", "master")
IsSwitchTo(c, b) == c.argv \in {<<"checkout", b>>, <<"checkout", "-b", b, Prefix \o "/" \o b>>}
IsMergeOf(c, b) == c.argv = <<"merge", Prefix \o "/" \o b>>
CheckoutAt == {i \in 1..Len(calls) : calls[i].argv[1] = "checkout"}
MergeAt == {i \in 1..Len(calls) : calls[i].argv[1] = "merge"}

C12_GitUpdateFetchesThenPositions ==
    RanGitUpdate =>
        /\ calls[FetchAt].argv = <<"fetch", "--prune">>
        /\ \A i \in 1..(FetchAt - 1) : calls[i].argv[1] \notin {"branch", "checkout", "merge", "submodule"}
        /\ calls[FetchAt].rc # 0 => (FetchAt = Len(calls) /\ result.exc = "GitError")
        /\ Cardinality(CheckoutAt) <= 1 /\ Cardinality(MergeAt) <= 1
        /\ \A i \in CheckoutAt : \A j \in MergeAt : FetchAt < i /\ i < j
        /\ IF Has(source, "rev")
           THEN /\ MergeAt = {}
                /\ \A i \in CheckoutAt : calls[i].argv = <<"checkout", source["rev"]>>
                /\ result.exc = "none" => CheckoutAt # {}
           ELSE /\ \A i \in CheckoutAt : IsSwitchTo(calls[i], UpdateTarget)
                /\ \A j \in MergeAt : IsMergeOf(calls[j], UpdateTarget)
                /\ (Has(source, "branch") /\ result.exc = "none") => (CheckoutAt # {} /\ MergeAt # {})

C12_Witness ==
    /\ RanGitUpdate
    /\ Has(source, "branch") /\ ~Has(source, "rev")
    /\ result.exc = "none"
    /\ \E i \in CheckoutAt : \E j \in MergeAt :
          /\ calls[i].argv[2] = "-b" /\ calls[i].rc = 0
          /\ calls[j].rc = 0

-----------------------------------------------------------------------------
(* C13: in git_update without rev and branch a 'master' that is missing     *)
(* locally or remotely is not fatal: the update returns normally, and it    *)
(* merges only when the listing at merge time shows the branch both locally *)
(* and remotely.  With a branch in the descriptor a missing branch fails.   *)

ListAt == {i \in 1..Len(calls) : calls[i].argv = <<"branch", "-a">> /\ calls[i].rc = 0}
Shows(i, line) == \E k \in 1..Len(OutOf(i)) : OutOf(i)[k] = line
LocalAt(i, b) == Shows(i, <<"*", b>>) \/ Shows(i, <<" ", b>>)
RemoteAt(i, b) == Shows(i, <<" ", Prefix \o "/" \o b>>)
FirstListing == CHOOSE i \in ListAt : \A k \in ListAt : i <= k
LastListing == CHOOSE i \in ListAt : \A k \in ListAt : k <= i
\* git_update positioned on a branch and the tool's version was found
Positioned ==
    /\ RanGitUpdate
    /\ ~Has(source, "rev")
    /\ memo # <<>>

C13_FallbackToleratesMissingBranch ==
    /\ (Positioned /\ AllSucceeded /\ ~Has(source, "branch")) =>
          /\ Cardinality(ListAt) = 2
          /\ MergeAt # {} <=> (LocalAt(LastListing, "master") /\ RemoteAt(LastListing, "master"))
          /\ CheckoutAt # {} <=> (LocalAt(FirstListing, "master") \/ RemoteAt(FirstListing, "master"))
          /\ ~SubmoduleIssued => (result.exc = "none" /\ driver = "ready")
          /\ result.exc \notin {"GitError", "SystemExit"}
    /\ (Positioned /\ Has(source, "branch") /\ ListAt # {}) =>
          /\ (~LocalAt(FirstListing, source["branch"]) /\ ~RemoteAt(FirstListing, source["branch"]))
                => (result.exc = "GitError" /\ CheckoutAt = {} /\ MergeAt = {})
          /\ (Cardinality(ListAt) = 2
              /\ ~(LocalAt(LastListing, source["branch"]) /\ RemoteAt(LastListing, source["branch"])))
                => (result.exc = "SystemExit" /\ MergeAt = {})

C13_Witness ==
    /\ Positioned /\ AllSucceeded /\ ~Has(source, "branch")
    /\ Cardinality(ListAt) = 2
    /\ ~LocalAt(LastListing, "master") /\ ~RemoteAt(LastListing, "master")
    /\ CheckoutAt = {} /\ MergeAt = {}
    /\ result.exc = "none"

-----------------------------------------------------------------------------
(* C14: the transcript a verbose checkout, update or status returns is the  *)
(* concatenation, in order, of the stdout of the invocations made during    *)
(* that operation, and holds nothing of earlier operations of the driver    *)

TranscriptReturned ==
    /\ result.op \in {"checkout", "update", "status"}
    /\ result.args.verbose
    /\ result.exc = "none"
    /\ result.op = "status" \/ result.val = Transcript
\* what the invocations of the last operation printed, in order
OperationOutput == Join([i \in 1..Len(calls) |-> OutOf(i)])

C14_TranscriptIsOfTheOperation ==
    TranscriptReturned => result.tr = OperationOutput

-----------------------------------------------------------------------------
(* C15: git_merge_rbranch lists the branches and merges the remote          *)
(* counterpart iff the listing shows the branch both locally and remotely;  *)
(* otherwise it merges nothing, and returns when accept_missing and         *)
(* hard-fails otherwise                                                     *)

MergeQueried ==
    /\ result.op = "git_merge_rbranch"
    /\ calls # <<>>
    /\ calls[1].argv = <<"branch", "-a">> /\ calls[1].rc = 0
    /\ memo # <<>>
MergeTarget == Get(source, "branch", "master")
MergesIssued == SelectSeq(calls, LAMBDA c : c.argv[1] = "merge")

C15_MergeIffLocalAndRemote ==
    MergeQueried =>
        IF LocalAt(1, MergeTarget) /\ RemoteAt(1, MergeTarget)
        THEN /\ Len(MergesIssued) = 1
             /\ MergesIssued[1].argv = <<"merge", Prefix \o "/" \o MergeTarget>>
             /\ calls[Len(calls)] = MergesIssued[1]
             /\ result.exc = IF MergesIssued[1].rc = 0 THEN "none" ELSE "GitError"
        ELSE /\ MergesIssued = <<>>
             /\ IF result.args.accept_missing
                THEN result.exc = "none" /\ driver = "ready"
                ELSE result.exc = "SystemExit" /\ driver = "dead"

C15_Witness ==
    /\ MergeQueried
    /\ LocalAt(1, MergeTarget) /\ RemoteAt(1, MergeTarget)
    /\ Len(MergesIssued) = 1 /\ MergesIssued[1].rc = 0
    /\ result.exc = "none"

-----------------------------------------------------------------------------
(* C16: status() labels the short report by its number of lines: one line   *)
(* without 'ahead' is 'clean', one line with 'ahead' is 'ahead', two or     *)
(* more lines are 'dirty'; an empty report counts as one line and is        *)
(* 'clean'; there is no other label                                         *)

StatusReturned ==
    /\ result.op = "status"
    /\ result.exc = "none"
    /\ Len(calls) = 1 /\ calls[1].argv = <<"status", "-s", "-b">>
HasAhead(line) == \E k \in 1..Len(line) : line[k] = "ahead"

C16_StatusLabelByLineCount ==
    StatusReturned =>
        /\ result.val \in {"clean", "ahead", "dirty"}
        /\ Len(OutOf(1)) = 0 => result.val = "clean"
        /\ Len(OutOf(1)) = 1 => result.val = IF HasAhead(OutOf(1)[1]) THEN "ahead" ELSE "clean"
        /\ Len(OutOf(1)) >= 2 => result.val = "dirty"

C16_Witness ==
    /\ StatusReturned
    /\ OutOf(1) = <<>>
    /\ result.val = "clean"

-----------------------------------------------------------------------------
(* C17: the prefix of remote-tracking refs depends on the tool's version    *)
(* only: 'origin' for the accepted versions below (1,6,3), among them       *)
(* (1,5), (1,6) and (1,6,2), 'remotes/origin' from (1,6,3) on; a version    *)
(* below (1,5) gives no prefix, the process ends when it is detected        *)

InstalledVersion == DottedVersion(SubSeq(installed, 3, Len(installed)))
ExpectedPrefix ==
    CASE InstalledVersion \in {<<1, 5>>, <<1, 6>>, <<1, 6, 2>>, <<1, 6, 2, 5>>} -> "origin"
      [] InstalledVersion \in {<<1, 6, 3>>, <<2, 30, 1, 2>>} -> "remotes/origin"
      [] OTHER -> None
\* the remote-tracking ref an invocation names, None when it names none
RefNamed(c) ==
    CASE c.argv[1] = "merge" -> c.argv[2]
      [] c.argv[1] = "checkout" /\ c.argv[2] = "-b" -> c.argv[4]
      [] c.argv[1] = "branch" /\ c.argv[2] # "-a" -> c.argv[3]
      [] OTHER -> None
VersionQueried == Issued(LAMBDA c : c.argv = <<"--version">> /\ c.rc = 0)

C17_PrefixFollowsVersion ==
    /\ memo # <<>> => (memo = InstalledVersion /\ ExpectedPrefix # None)
    /\ \A i \in 1..Len(calls) :
          RefNamed(calls[i]) # None =>
              \E b \in Branches : RefNamed(calls[i]) = ExpectedPrefix \o "/" \o b
    /\ (VersionQueried /\ ExpectedPrefix = None) =>
          /\ driver = "dead" /\ result.exc = "SystemExit"
          /\ calls[Len(calls)].argv = <<"--version">>
    /\ (MergeQueried /\ MergeTarget \in world.local /\ MergeTarget \in world.remote) =>
          Issued(LAMBDA c : c.argv = <<"merge", ExpectedPrefix \o "/" \o MergeTarget>>)

C17_Witness ==
    /\ InstalledVersion = <<1, 6>>
    /\ VersionQueried
    /\ Issued(LAMBDA c : c.argv = <<"merge", "origin/master">> /\ c.rc = 0)

-----------------------------------------------------------------------------
(* C18: from a successful construction on, whatever checkout, update,       *)
(* status and new_feature operations are run, the descriptor never holds    *)
(* both 'rev' and 'branch'                                                  *)

C18_RevAndBranchExclusive ==
    (driver = "ready" /\ result.op \in {"__init__", "checkout", "update", "status", "new_feature"}) =>
        ~(Has(source, "rev") /\ Has(source, "branch"))

-----------------------------------------------------------------------------
(* C19: new_feature returns False after the current-branch query alone when *)
(* the current branch is unknown, there is no preferred list, the current   *)
(* branch is in the list or the list is empty; otherwise it pushes only a   *)
(* branch the remote did not have, and only after the branch creation and   *)
(* the checkout, where needed, have succeeded                               *)

\* the current branch the operation read at its start, None when the query failed
FeatureBranch ==
    IF calls # <<>> /\ calls[1].argv[1] = "symbolic-ref" /\ calls[1].rc = 0 THEN OutOf(1)[1][1] ELSE None
NotOnFeatureBranch ==
    /\ result.op = "new_feature"
    /\ calls # <<>>
    /\ \/ calls[1].rc # 0
       \/ ~Has(source, "preferred-branches")
       \/ In(FeatureBranch, source["preferred-branches"])
       \/ source["preferred-branches"] = <<>>
PushAt == {j \in 1..Len(calls) : calls[j].argv[1] = "push"}
\* the query of the checkout's branch that precedes the checkout step
HeadQueryAt == CHOOSE s \in 1..Len(calls) : calls[s].argv[1] = "symbolic-ref" /\ calls[s].cwd = Path

C19_NewFeatureGuardsAndPushOrder ==
    /\ NotOnFeatureBranch =>
          /\ Len(calls) = 1 /\ calls[1].argv[1] = "symbolic-ref"
          /\ result.exc = "none" /\ result.val = "False"
    /\ result.op = "new_feature" =>
          /\ (ListAt # {} /\ RemoteAt(FirstListing, FeatureBranch)) => PushAt = {}
          /\ \A j \in PushAt :
                /\ calls[j].argv = <<"push", "--set-upstream", upstream_name, FeatureBranch>>
                /\ j = Len(calls)
                /\ ListAt # {} /\ ~RemoteAt(FirstListing, FeatureBranch)
                /\ \A i \in 1..(j - 1) : calls[i].rc # 0 => calls[i].argv[1] = "symbolic-ref"
                /\ ~LocalAt(FirstListing, FeatureBranch) =>
                      \E i \in 1..(j - 1) :
                          /\ calls[i].argv = <<"branch", FeatureBranch, Prefix \o "/" \o source["preferred-branches"][1]>>
                          /\ calls[i].rc = 0
                /\ (calls[HeadQueryAt].rc # 0 \/ OutOf(HeadQueryAt) # << <<FeatureBranch>> >>) =>
                      \E i \in (HeadQueryAt + 1)..(j - 1) :
                          calls[i].argv = <<"checkout", FeatureBranch>> /\ calls[i].rc = 0

C19_Witness ==
    /\ result.op = "new_feature"
    /\ result.exc = "none" /\ result.val = "True"
    /\ \E j \in PushAt : calls[j].rc = 0
    /\ Issued(LAMBDA c : c.argv[1] = "branch" /\ c.argv[2] = FeatureBranch /\ c.rc = 0)
    /\ Issued(LAMBDA c : c.argv = <<"checkout", FeatureBranch>> /\ c.rc = 0)

-----------------------------------------------------------------------------
(* C20: once the descriptor has a 'branch', auto_select_branch leaves the   *)
(* descriptor alone on every later call, whatever the current branch has    *)
(* become in the meantime; and when the current branch cannot be determined *)
(* the descriptor stays without a 'branch'                                  *)

AutoSelectStep == OperationStep /\ result'.op = "auto_select_branch"
CurrentUnknown == calls' # <<>> /\ calls'[1].argv[1] = "symbolic-ref" /\ calls'[1].rc # 0

C20_AutoSelectIsSticky ==
    [][AutoSelectStep =>
          /\ Has(source, "branch") => (source' = source /\ calls' = <<>>)
          /\ (~Has(source, "branch") /\ (cwdHead = Detached \/ CurrentUnknown)) =>
                (source' = source /\ result'.exc = "none")
          /\ (~Has(source, "branch") /\ Has(source', "branch")) =>
                /\ Has(source, "preferred-branches")
                /\ source'["branch"] =
                      IF In(cwdHead, source["preferred-branches"]) \/ source["preferred-branches"] = <<>>
                      THEN cwdHead ELSE source["preferred-branches"][1]]_vars

\* the branch was selected while the directory was on 'master', the directory
\* has moved to a branch outside the list, and a later call has run
C20_Witness ==
    /\ result.op = "auto_select_branch"
    /\ calls = <<>>
    /\ Get(source, "preferred-branches", <<>>) = <<"dev", "master">>
    /\ Get(source, "branch", None) = "master"
    /\ cwdHead = Feature

====
